---- MODULE Spec2Model ----
(***************************************************************************)
(* Model of src/mhbase.py: a Streamlit script that loads the table         *)
(* asset_data once (memoised by st.cache_data), filters it by two          *)
(* multiselect widgets and aggregates four numeric columns.                *)
(*                                                                         *)
(* The script is re-executed top to bottom on every widget change; pc is   *)
(* the position of the current script run.  The table, the widget state    *)
(* and the cache outlive a run, every other variable is a local of the run *)
(* and is reset when a run starts.                                         *)
(*                                                                         *)
(* pandas semantics used (defaults of the calls in the source):            *)
(*   Series.isin      NULL matches NULL                                    *)
(*   Series.unique    NULL is one of the distinct values                   *)
(*   DataFrame[mask]  keeps the rows in order, with multiplicity           *)
(*   Series.sum       0 on an empty column                                 *)
(*   groupby(key)     dropna=True: rows whose key is NULL are dropped      *)
(*   pivot_table      dropna=True: rows with a NULL key are dropped, the   *)
(*                    grid is index values x column values, fill_value=0   *)
(* Not modelled: c_name (display only), NULL in a numeric column, the      *)
(* charts and the CSV export.  conn is the connection of the current run's *)
(* call of load_data; executed, outcome, connects (of the current run),    *)
(* queries (of the process) and first (the table first loaded) record what *)
(* happened and drive nothing.                                             *)
(***************************************************************************)
EXTENDS Integers, Sequences, FiniteSets, TLC

VARIABLES db, cache, widgets, pc, conn, data, selected_region, selected_zone,
          filtered_data, total, region_data, asset_totals, zone_data,
          heatmap_data, executed, outcome, connects, queries, first

vars == <<db, cache, widgets, pc, conn, data, selected_region, selected_zone,
          filtered_data, total, region_data, asset_totals, zone_data,
          heatmap_data, executed, outcome, connects, queries, first>>

(* ------------------------------ bounds --------------------------------- *)

\* longest table asset_data the model loads
MaxRows == 2

(* ------------------------------ the table ------------------------------ *)

\* SQL NULL in a text column (None in the DataFrame)
None == "None"

RegionNames == {"A", "B", None}

ZoneNames == {"X", "Y", None}

NumCols == {"substation", "dtc", "ht_pole", "lt_pole"}

\* the counts a row carries
NumericRows ==
  { [substation |-> 2, dtc |-> 1, ht_pole |-> 0, lt_pole |-> 3] }

AssetRecord ==
  { [region_name |-> r, z_name |-> z, substation |-> n.substation,
     dtc |-> n.dtc, ht_pole |-> n.ht_pole, lt_pole |-> n.lt_pole] :
       r \in RegionNames, z \in ZoneNames, n \in NumericRows }

AssetTable == UNION { [1..n -> AssetRecord] : n \in 0..MaxRows }

(* ------------------------------ pandas --------------------------------- *)

\* isin as SQL's IN compares: NULL matches nothing
isin_sql(v, values) == v # None /\ v \in values

\* Series.isin(values)
isin(v, values) == v \in values

\* data[col].unique()
unique(table, col) == { table[i][col] : i \in DOMAIN table }

\* DataFrame[col].sum()
RECURSIVE column_sum(_, _)
column_sum(table, col) ==
  IF table = <<>> THEN 0
  ELSE table[1][col] + column_sum(Tail(table), col)

\* the rows of table whose column col holds k
rows_of(table, col, k) == SelectSeq(table, LAMBDA r : r[col] = k)

\* DataFrame.groupby(key).sum(): one entry per non-NULL key value
groupby_sum(table, key) ==
  LET keys == unique(table, key) \ {None}
  IN  [k \in keys |-> [c \in NumCols |-> column_sum(rows_of(table, key, k), c)]]

RECURSIVE frame_sum(_, _, _)
\* region_data[cols].sum(): the column c added over the groups in ks
frame_sum(frame, ks, c) ==
  IF ks = {} THEN 0
  ELSE LET k == CHOOSE x \in ks : TRUE
       IN  frame[k][c] + frame_sum(frame, ks \ {k}, c)

\* DataFrame.pivot_table(values, index, columns, aggfunc="sum", fill_value=0)
pivot_table(table, index, columns) ==
  LET kept  == SelectSeq(table, LAMBDA r : r[index] # None /\ r[columns] # None)
      pairs == { <<kept[i][index], kept[i][columns]>> : i \in DOMAIN kept }
      agged == [p \in pairs |->
                 [c \in NumCols |->
                   column_sum(SelectSeq(kept, LAMBDA r : r[index] = p[1]
                                                      /\ r[columns] = p[2]), c)]]
      grid  == { p[1] : p \in pairs } \X { p[2] : p \in pairs }
      fill_value == [c \in NumCols |-> 0]
  IN  [p \in grid |-> IF p \in pairs THEN agged[p] ELSE fill_value]

\* the mask without its z_name half
boolean_index_region_only(table, regions, zones) ==
  SelectSeq(table, LAMBDA r : isin(r.region_name, regions))

\* the mask with | for &
boolean_index_or(table, regions, zones) ==
  SelectSeq(table, LAMBDA r : isin(r.region_name, regions) \/ isin(r.z_name, zones))

\* data[data["region_name"].isin(regions) & data["z_name"].isin(zones)]
boolean_index(table, regions, zones) ==
  SelectSeq(table, LAMBDA r : isin(r.region_name, regions) /\ isin(r.z_name, zones))

(* ------------------------------ load_data ------------------------------ *)

\* what the database does when contacted
Outcomes == {"ok", "connect_fails", "query_fails"}

\* load_data without the decorator: every call queries
load_data_uncached(store, out, rows) ==
  IF out = "connect_fails" THEN
    [raised |-> TRUE, value |-> <<>>, store |-> store,
     conn |-> "none", connects |-> 1, queries |-> 0]
  ELSE IF out = "query_fails" THEN
    [raised |-> TRUE, value |-> <<>>, store |-> store,
     conn |-> "open", connects |-> 1, queries |-> 0]
  ELSE
    [raised |-> FALSE, value |-> rows, store |-> {rows},
     conn |-> "closed", connects |-> 1, queries |-> 1]

\* load_data whose result is never memoised
load_data_nostore(store, out, rows) ==
  IF out = "connect_fails" THEN
    [raised |-> TRUE, value |-> <<>>, store |-> {},
     conn |-> "none", connects |-> 1, queries |-> 0]
  ELSE IF out = "query_fails" THEN
    [raised |-> TRUE, value |-> <<>>, store |-> {},
     conn |-> "open", connects |-> 1, queries |-> 0]
  ELSE
    [raised |-> FALSE, value |-> rows, store |-> {},
     conn |-> "closed", connects |-> 1, queries |-> 1]

\* load_data that catches the exception and returns an empty table
load_data_swallow(store, out, rows) ==
  IF store # {} THEN
    [raised |-> FALSE, value |-> CHOOSE t \in store : TRUE, store |-> store,
     conn |-> "none", connects |-> 0, queries |-> 0]
  ELSE IF out = "connect_fails" THEN
    [raised |-> FALSE, value |-> <<>>, store |-> store,
     conn |-> "none", connects |-> 1, queries |-> 0]
  ELSE IF out = "query_fails" THEN
    [raised |-> FALSE, value |-> <<>>, store |-> store,
     conn |-> "open", connects |-> 1, queries |-> 0]
  ELSE
    [raised |-> FALSE, value |-> rows, store |-> {rows},
     conn |-> "closed", connects |-> 1, queries |-> 1]

\* load_data() under @st.cache_data.  store is the memo ({} or {table}), out
\* the database's behaviour, rows the content of asset_data.  The result
\* tells whether the call raised, the value returned, the memo afterwards,
\* the state of conn when the call ends, and the connects and successful
\* queries it made.
load_data(store, out, rows) ==
  IF store # {} THEN
    [raised |-> FALSE, value |-> CHOOSE t \in store : TRUE, store |-> store,
     conn |-> "none", connects |-> 0, queries |-> 0]
  ELSE IF out = "connect_fails" THEN
    [raised |-> TRUE, value |-> <<>>, store |-> store,
     conn |-> "none", connects |-> 1, queries |-> 0]
  ELSE IF out = "query_fails" THEN
    [raised |-> TRUE, value |-> <<>>, store |-> store,
     conn |-> "open", connects |-> 1, queries |-> 0]
  ELSE
    [raised |-> FALSE, value |-> rows, store |-> {rows},
     conn |-> "closed", connects |-> 1, queries |-> 1]

(* ------------------------------ the script ----------------------------- *)

Zero == [c \in NumCols |-> 0]

NoWidgets == [rendered |-> FALSE, regions |-> {}, zones |-> {},
              region_options |-> {}, zone_options |-> {}]

Init ==
  /\ db \in AssetTable
  /\ cache = {}
  /\ widgets = NoWidgets
  /\ pc = "load_data"
  /\ conn = "none"
  /\ data = <<>>
  /\ selected_region = {}
  /\ selected_zone = {}
  /\ filtered_data = <<>>
  /\ total = Zero
  /\ region_data = <<>>
  /\ asset_totals = Zero
  /\ zone_data = <<>>
  /\ heatmap_data = <<>>
  /\ executed = {}
  /\ outcome = "ok"
  /\ connects = 0
  /\ queries = 0
  /\ first = {}

\* the locals of a script run, as a run that has just started has them
FreshRun ==
  /\ pc' = "load_data"
  /\ conn' = "none"
  /\ data' = <<>>
  /\ selected_region' = {}
  /\ selected_zone' = {}
  /\ filtered_data' = <<>>
  /\ total' = Zero
  /\ region_data' = <<>>
  /\ asset_totals' = Zero
  /\ zone_data' = <<>>
  /\ heatmap_data' = <<>>
  /\ executed' = {}
  /\ outcome' = "ok"
  /\ connects' = 0

\* data = load_data(): an exception ends the run
LoadData ==
  /\ pc = "load_data"
  /\ \E out \in Outcomes :
       LET res == load_data(cache, out, db)
       IN  /\ outcome' = IF res.connects > 0 THEN out ELSE "ok"
           /\ cache' = res.store
           /\ conn' = res.conn
           /\ connects' = connects + res.connects
           /\ queries' = queries + res.queries
           /\ first' = IF first = {} /\ res.queries > 0 THEN {db} ELSE first
           /\ data' = res.value
           /\ pc' = IF res.raised THEN "error" ELSE "sidebar"
           /\ executed' = IF res.raised THEN executed ELSE executed \cup {"load_data"}
  /\ UNCHANGED <<db, widgets, selected_region, selected_zone, filtered_data,
                 total, region_data, asset_totals, zone_data, heatmap_data>>

\* the two st.sidebar.multiselect calls: the default on the first render,
\* the widget's stored value afterwards
Sidebar ==
  /\ pc = "sidebar"
  /\ LET ro == unique(data, "region_name")
         zo == unique(data, "z_name")
         rv == IF widgets.rendered THEN widgets.regions ELSE ro
         zv == IF widgets.rendered THEN widgets.zones ELSE zo
     IN  /\ selected_region' = rv
         /\ selected_zone' = zv
         /\ widgets' = [rendered |-> TRUE, regions |-> rv, zones |-> zv,
                        region_options |-> ro, zone_options |-> zo]
  /\ pc' = "filter"
  /\ executed' = executed \cup {"sidebar"}
  /\ UNCHANGED <<db, cache, conn, data, filtered_data, total, region_data,
                 asset_totals, zone_data, heatmap_data, outcome, connects,
                 queries, first>>

\* filtered_data = data[...]
Filter ==
  /\ pc = "filter"
  /\ filtered_data' = boolean_index(data, selected_region, selected_zone)
  /\ pc' = "totals"
  /\ executed' = executed \cup {"filter"}
  /\ UNCHANGED <<db, cache, widgets, conn, data, selected_region, selected_zone,
                 total, region_data, asset_totals, zone_data, heatmap_data,
                 outcome, connects, queries, first>>

\* total_substation, total_dtc, total_ht_pole, total_lt_pole
Totals ==
  /\ pc = "totals"
  /\ total' = [c \in NumCols |-> column_sum(filtered_data, c)]
  /\ pc' = "region"
  /\ executed' = executed \cup {"totals"}
  /\ UNCHANGED <<db, cache, widgets, conn, data, selected_region, selected_zone,
                 filtered_data, region_data, asset_totals, zone_data,
                 heatmap_data, outcome, connects, queries, first>>

\* region_data and the pie chart's asset_totals
Region ==
  /\ pc = "region"
  /\ LET rd == groupby_sum(filtered_data, "region_name")
     IN  /\ region_data' = rd
         /\ asset_totals' = [c \in NumCols |-> frame_sum(rd, DOMAIN rd, c)]
  /\ pc' = "zone"
  /\ executed' = executed \cup {"region"}
  /\ UNCHANGED <<db, cache, widgets, conn, data, selected_region, selected_zone,
                 filtered_data, total, zone_data, heatmap_data, outcome,
                 connects, queries, first>>

\* zone_data
Zone ==
  /\ pc = "zone"
  /\ zone_data' = groupby_sum(filtered_data, "z_name")
  /\ pc' = "heatmap"
  /\ executed' = executed \cup {"zone"}
  /\ UNCHANGED <<db, cache, widgets, conn, data, selected_region, selected_zone,
                 filtered_data, total, region_data, asset_totals, heatmap_data,
                 outcome, connects, queries, first>>

\* heatmap_data; the rest of the script only renders
Heatmap ==
  /\ pc = "heatmap"
  /\ heatmap_data' = pivot_table(filtered_data, "region_name", "z_name")
  /\ pc' = "done"
  /\ executed' = executed \cup {"heatmap"}
  /\ UNCHANGED <<db, cache, widgets, conn, data, selected_region, selected_zone,
                 filtered_data, total, region_data, asset_totals, zone_data,
                 outcome, connects, queries, first>>

(* ------------------------------ the user ------------------------------- *)

\* the user changes the region multiselect: the script runs again
ChangeRegion ==
  /\ widgets.rendered
  /\ \E S \in SUBSET widgets.region_options :
       /\ S # widgets.regions
       /\ widgets' = [widgets EXCEPT !.regions = S]
  /\ FreshRun
  /\ UNCHANGED <<db, cache, queries, first>>

\* the user changes the zone multiselect: the script runs again
ChangeZone ==
  /\ widgets.rendered
  /\ \E S \in SUBSET widgets.zone_options :
       /\ S # widgets.zones
       /\ widgets' = [widgets EXCEPT !.zones = S]
  /\ FreshRun
  /\ UNCHANGED <<db, cache, queries, first>>

\* the user reruns a script run that has ended
Rerun ==
  /\ pc \in {"done", "error"}
  /\ FreshRun
  /\ UNCHANGED <<db, cache, widgets, queries, first>>

(* ------------------------------ the database --------------------------- *)

\* another client deletes the last row of asset_data
DbDelete ==
  /\ db # <<>>
  /\ db' = SubSeq(db, 1, Len(db) - 1)
  /\ UNCHANGED <<cache, widgets, pc, conn, data, selected_region, selected_zone,
                 filtered_data, total, region_data, asset_totals, zone_data,
                 heatmap_data, executed, outcome, connects, queries, first>>

Next ==
  \/ LoadData
  \/ Sidebar
  \/ Filter
  \/ Totals
  \/ Region
  \/ Zone
  \/ Heatmap
  \/ ChangeRegion
  \/ ChangeZone
  \/ Rerun
  \/ DbDelete

Spec == Init /\ [][Next]_vars

(* ------------------------------ properties ----------------------------- *)

\* the indices of the rows of data that pass both membership tests
Passing ==
  { i \in DOMAIN data : /\ data[i].region_name \in selected_region
                        /\ data[i].z_name \in selected_zone }

\* the j-th smallest index of Passing
NthPassing(j) ==
  CHOOSE i \in Passing : Cardinality({ k \in Passing : k <= i }) = j

\* C1: the filtered view holds exactly the rows of the table whose
\* region_name is selected and whose z_name is selected, each as often as
\* the table holds it and in the table's order.
C1_FilterExact ==
  "filter" \in executed =>
    /\ Len(filtered_data) = Cardinality(Passing)
    /\ \A j \in DOMAIN filtered_data : filtered_data[j] = data[NthPassing(j)]

\* a view that kept one row and left out a row whose zone is selected and
\* whose region is not, and one whose region is selected and whose zone is not
C1_Witness ==
  /\ "filter" \in executed
  /\ Len(data) = 2
  /\ Len(filtered_data) = 1
  /\ \E i \in DOMAIN data :
       \/ data[i].region_name \notin selected_region /\ data[i].z_name \in selected_zone
       \/ data[i].region_name \in selected_region /\ data[i].z_name \notin selected_zone

\* C2: once load_data has returned or raised, the connection it opened is
\* closed.
C2_ConnectionClosed == conn # "open"

\* C3: once a load has succeeded, no later step opens a connection or
\* executes the query, the stored table stays, every later call of load_data
\* returns it, and the query succeeds at most once in the process.
C3_LoadOnce ==
  /\ [](queries <= 1)
  /\ [][cache # {} =>
          /\ cache' = cache
          /\ queries' = queries
          /\ connects' <= connects
          /\ (pc = "load_data" /\ pc' # "load_data" =>
                pc' = "sidebar" /\ data' \in cache)]_vars

\* a run served from the cache after the selection and the database changed
C3_Witness ==
  /\ pc = "done"
  /\ queries = 1
  /\ connects = 0
  /\ db \notin cache
  /\ widgets.regions # widgets.region_options

\* C4: a failed connect or query ends the run in the error state after one
\* attempt, with nothing cached and no later step of the run executed.
C4_FailureAborts ==
  /\ outcome # "ok" =>
       /\ pc = "error"
       /\ connects = 1
       /\ cache = {}
       /\ executed = {}
       /\ data = <<>>
       /\ filtered_data = <<>>
       /\ DOMAIN region_data = {}
       /\ DOMAIN zone_data = {}
       /\ DOMAIN heatmap_data = {}
  /\ connects <= 1
  /\ pc = "error" => outcome # "ok"

\* a run that ended on a failed query
C4_Witness == pc = "error" /\ outcome = "query_fails" /\ db # <<>>

\* C5: the per-group sums of region_data and of zone_data, added over the
\* groups, equal the totals of the filtered view, and so do asset_totals.
C5_GroupSumsEqualTotals ==
  /\ "region" \in executed =>
       /\ \A c \in NumCols :
            frame_sum(region_data, DOMAIN region_data, c) = total[c]
       /\ asset_totals = total
  /\ "zone" \in executed =>
       \A c \in NumCols : frame_sum(zone_data, DOMAIN zone_data, c) = total[c]

\* C6: the cells of the pivot, added up, equal the totals of the filtered
\* view.
C6_PivotSumsEqualTotals ==
  "heatmap" \in executed =>
    \A c \in NumCols : frame_sum(heatmap_data, DOMAIN heatmap_data, c) = total[c]

\* C7: the pivot has a cell for every pair of a region_name and a z_name of
\* the view; a cell holds the sum over the rows with its pair, zero when
\* there is none.
C7_PivotDenseGrid ==
  "heatmap" \in executed =>
    /\ DOMAIN heatmap_data =
         { filtered_data[i].region_name : i \in DOMAIN filtered_data }
           \X { filtered_data[i].z_name : i \in DOMAIN filtered_data }
    /\ \A p \in DOMAIN heatmap_data : \A c \in NumCols :
         heatmap_data[p][c] =
           column_sum(SelectSeq(filtered_data, LAMBDA r : r.region_name = p[1]
                                                       /\ r.z_name = p[2]), c)

\* C8: with every region_name and every z_name of the table selected, the
\* filtered view is the table; the run that renders the widgets for the
\* first time (the run that loaded the table) selects exactly that.
C8_FullSelectionIsIdentity ==
  /\ ( /\ "filter" \in executed
       /\ selected_region = { data[i].region_name : i \in DOMAIN data }
       /\ selected_zone = { data[i].z_name : i \in DOMAIN data } )
     => filtered_data = data
  /\ ("sidebar" \in executed /\ connects = 1) =>
       /\ selected_region = { data[i].region_name : i \in DOMAIN data }
       /\ selected_zone = { data[i].z_name : i \in DOMAIN data }

\* the full selection over a two-row table with a NULL region_name
C8_Witness ==
  /\ "filter" \in executed
  /\ Len(data) = 2
  /\ selected_region = { data[i].region_name : i \in DOMAIN data }
  /\ selected_zone = { data[i].z_name : i \in DOMAIN data }
  /\ None \in selected_region

\* C9: with no region or no zone selected, the filtered view is empty and
\* the four totals are zero.
C9_EmptySelection ==
  /\ ("filter" \in executed /\ (selected_region = {} \/ selected_zone = {}))
       => filtered_data = <<>>
  /\ ("totals" \in executed /\ (selected_region = {} \/ selected_zone = {}))
       => \A c \in NumCols : total[c] = 0

\* the totals of a run over a two-row table with every region and no zone
\* selected
C9_Witness ==
  /\ "totals" \in executed
  /\ Len(data) = 2
  /\ selected_zone = {}
  /\ selected_region = widgets.region_options

\* C10: the table of every run is the table first loaded, and the view and
\* the aggregates of a run are those of that table under the widgets'
\* current selection.
C10_TableImmutable ==
  /\ cache = first
  /\ "load_data" \in executed =>
       /\ first # {}
       /\ data \in first
  /\ \A T \in first :
       LET view == boolean_index(T, widgets.regions, widgets.zones)
       IN  /\ "filter" \in executed => filtered_data = view
           /\ "totals" \in executed =>
                total = [c \in NumCols |-> column_sum(view, c)]
           /\ "region" \in executed =>
                region_data = groupby_sum(view, "region_name")
           /\ "zone" \in executed => zone_data = groupby_sum(view, "z_name")
           /\ "heatmap" \in executed =>
                heatmap_data = pivot_table(view, "region_name", "z_name")

\* a later run, ended, after the database lost a row and the selection was
\* narrowed
C10_Witness ==
  /\ pc = "done"
  /\ connects = 0
  /\ db \notin first
  /\ filtered_data # data
  /\ filtered_data # <<>>
====
